---- MODULE Spec2Model ----
(***************************************************************************)
(* photo-log backend: the identity reconciler (app/crud.py,                *)
(* get_or_create_user), the endpoints that call it (app/routers/auth.py,   *)
(* app/routers/profiles.py), the admin suspension toggle                   *)
(* (app/routers/admin.py) and the users table (app/models/user.py); the    *)
(* quota accountant (app/crud.py, get_user_upload_size) and the upload     *)
(* endpoints that consult it (app/routers/public.py, events.py,            *)
(* profiles.py) with the photos table (app/models/photo.py).               *)
(*                                                                         *)
(* The users table is the committed state of the relational store.  Each   *)
(* request is handled by a worker; a worker's database statements are the  *)
(* atomic steps, and statements of different workers interleave freely.    *)
(***************************************************************************)
EXTENDS Integers, Sequences, FiniteSets, TLC

(* ------------------------------ bounds -------------------------------- *)

\* total number of requests started in one behaviour of Spec / SpecClear
MaxCalls == 3
\* number of times SpecSeq runs the same request in a row
MaxSeqCalls == 2
\* number of rows of the users table SpecSeq starts from
MaxRows == 2
\* number of simultaneous reconcile calls in SpecRace (the N of the race)
NumRacers == 2
\* number of rows of the photos table SpecTotal starts from
MaxPhotos == 3
\* total number of uploads started in one behaviour of SpecUploadSeq / SpecUploadRace
MaxUploads == 2
\* the number of requests to the event, public and admin endpoints started in
\* one behaviour of SpecHost
MaxHostCalls == 2

(* ------------------------------ values -------------------------------- *)

\* Python's None (an absent email, an absent display name, "no row")
NoneVal == "None"
\* the empty string
EmptyStr == ""

Workers == {1, 2}
UIDs == {"u1", "u2"}
\* emails a token can carry: absent, empty, or an address
Emails == {NoneVal, EmptyStr, "e1", "e2"}
RealEmails == {"e1", "e2"}
\* display names a token or a profile edit can carry
Names == {NoneVal, "n1", "n2"}

\* the outcomes of get_or_create_user: a returned row, or one of its three
\* ValueErrors (told apart by their message), or an ORM failure on a vanished row
Ok == "ok"
InvalidInput == "InvalidInput"
DuplicateIdentity == "DuplicateIdentity"
ReconciliationFailed == "ReconciliationFailed"
StaleDataError == "StaleDataError"
NoneReturned == "NoneReturned"
ValueErrors == {InvalidInput, DuplicateIdentity, ReconciliationFailed}

\* str(e) of each ValueError
Message(kind) ==
    CASE kind = InvalidInput -> "Email is required for user creation"
      [] kind = DuplicateIdentity ->
            "An account with this email already exists. Please sign in instead. If you forgot your password, use the 'Forgot Password' option."
      [] kind = ReconciliationFailed -> "Failed to create user: (IntegrityError)"
      [] OTHER -> ""

(* ------------------------------- text --------------------------------- *)

\* A size column is a String column: it holds a text, a sequence of
\* characters, or NULL (None in Python)
NullText == <<NoneVal>>

Digits == {"0", "1", "2", "3", "4", "5", "6", "7", "8", "9"}

DigitValue(c) ==
    CASE c = "0" -> 0 [] c = "1" -> 1 [] c = "2" -> 2 [] c = "3" -> 3
      [] c = "4" -> 4 [] c = "5" -> 5 [] c = "6" -> 6 [] c = "7" -> 7
      [] c = "8" -> 8 [] c = "9" -> 9

DigitChar(d) ==
    CASE d = 0 -> "0" [] d = 1 -> "1" [] d = 2 -> "2" [] d = 3 -> "3"
      [] d = 4 -> "4" [] d = 5 -> "5" [] d = 6 -> "6" [] d = 7 -> "7"
      [] d = 8 -> "8" [] d = 9 -> "9"

IsDigits(t) == Len(t) > 0 /\ \A i \in 1..Len(t) : t[i] \in Digits

\* the number a run of decimal digits writes
RECURSIVE Magnitude(_)
Magnitude(t) ==
    IF t = << >> THEN 0
    ELSE 10 * Magnitude(SubSeq(t, 1, Len(t) - 1)) + DigitValue(t[Len(t)])

\* the text is decimal digits, with or without a minus sign before them
IsIntegerText(t) ==
    \/ IsDigits(t)
    \/ Len(t) > 1 /\ t[1] = "-" /\ IsDigits(Tail(t))

IntegerOf(t) == IF t[1] = "-" THEN 0 - Magnitude(Tail(t)) ELSE Magnitude(t)

\* the text a String column holds after an int was assigned to it
RECURSIVE Str(_)
Str(n) ==
    IF n < 0 THEN <<"-">> \o Str(0 - n)
    ELSE IF n < 10 THEN <<DigitChar(n)>>
    ELSE Str(n \div 10) \o <<DigitChar(n % 10)>>

Max(S) == CHOOSE x \in S : \A y \in S : y <= x

\* the database engines settings.database_url can name
Dialects == {"postgresql", "sqlite"}

\* SQLite's CAST reads the longest integer at the start of the text, 0 if none
SqliteCast(t) ==
    LET lens == {k \in 1..Len(t) : IsIntegerText(SubSeq(t, 1, k))} IN
    IF lens = {} THEN 0 ELSE IntegerOf(SubSeq(t, 1, Max(lens)))

\* CAST(text AS INTEGER) of a text that is not NULL: PostgreSQL fails the
\* statement on a text that is no integer, SQLite reads what it can
CastInteger(t, d) ==
    IF IsIntegerText(t) THEN [err |-> FALSE, val |-> IntegerOf(t)]
    ELSE IF d = "sqlite" THEN [err |-> FALSE, val |-> SqliteCast(t)]
    ELSE [err |-> TRUE, val |-> 0]

RECURSIVE SumCast(_, _)
SumCast(texts, d) ==
    IF texts = << >> THEN 0
    ELSE CastInteger(Head(texts), d).val + SumCast(Tail(texts), d)

\* SELECT SUM(CAST(col AS INTEGER)) over the column values of the rows
\* selected: NULLs are skipped, and with no value left the sum is NULL
SqlSum(texts, d) ==
    LET given == SelectSeq(texts, LAMBDA t : t # NullText) IN
    IF \E i \in 1..Len(given) : CastInteger(given[i], d).err
      THEN [err |-> TRUE, null |-> FALSE, val |-> 0]
    ELSE IF given = << >>
      THEN [err |-> FALSE, null |-> TRUE, val |-> 0]
    ELSE [err |-> FALSE, null |-> FALSE, val |-> SumCast(given, d)]

\* `if photo_size: total_size += photo_size`: None and 0 add nothing
Contribution(sum) == IF sum.null \/ sum.val = 0 THEN 0 ELSE sum.val

\* `if user.avatar_file_size:` and `int(user.avatar_file_size)` in the try:
\* None and '' are skipped, a ValueError is passed over
AvatarContribution(t) ==
    IF t = NullText \/ t = << >> THEN 0
    ELSE IF IsIntegerText(t) THEN IntegerOf(t)
    ELSE 0

(* ------------------------------ state --------------------------------- *)

VARIABLES
    users,      \* the users table: rows in insertion order (the index is the row)
    pc,         \* per worker: the statement it is about to run
    op,         \* per worker: the endpoint being served
    req,        \* per worker: user_info (uid, email, name) and the endpoint's input
    user,       \* per worker: the ORM object `user` / `new_user` it holds
    result,     \* per worker: what get_or_create_user gave and the HTTP response
    calls,      \* number of requests started so far
    hist,       \* per worker: history of the current call (for stating properties)
    events,     \* the events table
    photos,     \* the photos table
    dialect,    \* the database engine behind settings.database_url
    up,         \* per worker: the locals of the upload or quota call it serves
    accepted    \* the uploads accepted so far, in commit order (for properties)

vars == <<users, pc, op, req, user, result, calls, hist,
          events, photos, dialect, up, accepted>>

\* what the identity reconciler and the profile endpoints never touch
media == <<events, photos, dialect, up, accepted>>

NoUser == [id |-> NoneVal, email |-> NoneVal, name |-> NoneVal,
           is_admin |-> FALSE, is_suspended |-> FALSE,
           avatar_file_size |-> NullText]

\* what a request brings: the token (uid, email, name), the body (patch), the
\* event id or slug of the path and the password of the form
NoReq == [uid |-> NoneVal, email |-> NoneVal, name |-> NoneVal, patch |-> NoneVal,
          event_id |-> NoneVal, password |-> NoneVal]

NoResult == [kind |-> "none", user |-> NoUser, status |-> 0, detail |-> ""]

NoHist == [pre |-> << >>, inserts |-> 0, updates |-> 0, queries |-> 0,
           insertFailed |-> FALSE, requeried |-> FALSE, matchAtRequery |-> FALSE,
           round |-> 1, prevResult |-> NoResult, prevInserts |-> 0,
           lookups |-> 0, attempts |-> 0, requeries |-> 0]

\* the locals of an upload: the event addressed, len(file_content), the id
\* given to get_user_upload_size, its total_size so far, and what it returned
NoUp == [event_id |-> NoneVal, file_size |-> 0, user_id |-> NoneVal,
         total_size |-> 0, current_upload_size |-> 0,
         photos |-> {}, photo_count |-> 0]

Rows(tbl) == {tbl[i] : i \in 1..Len(tbl)}

(* ------------------------- the users table ---------------------------- *)

\* User(id=uid, email=email): the display name is not stored
NewUser_NoName(uid, email, name) ==
    [id |-> uid, email |-> email, name |-> NoneVal,
     is_admin |-> FALSE, is_suspended |-> FALSE, avatar_file_size |-> NullText]

\* User(id=uid, email=email, name=name) with the column defaults
NewUser(uid, email, name) ==
    [id |-> uid, email |-> email, name |-> name,
     is_admin |-> FALSE, is_suspended |-> FALSE, avatar_file_size |-> NullText]

\* email = Column(String, index=True): the unique index on email left out
InsertConflict_IdOnly(tbl, row) == \E r \in Rows(tbl) : r.id = row.id

\* the INSERT violates the primary key on id or the unique index on email
InsertConflict(tbl, row) ==
    \E r \in Rows(tbl) : r.id = row.id \/ r.email = row.email

\* the whole object written back with the column defaults: the flags are reset
SetName_ResetFlags(tbl, id, name) ==
    [i \in 1..Len(tbl) |->
        IF tbl[i].id = id
          THEN [tbl[i] EXCEPT !.name = name, !.is_suspended = FALSE]
          ELSE tbl[i]]

\* UPDATE users SET name = :name WHERE id = :id
SetName(tbl, id, name) ==
    [i \in 1..Len(tbl) |->
        IF tbl[i].id = id THEN [tbl[i] EXCEPT !.name = name] ELSE tbl[i]]

\* DELETE FROM users WHERE id = :id in place of the update
SetSuspended_Dropping(tbl, id, flag) == SelectSeq(tbl, LAMBDA r : r.id # id)

\* UPDATE users SET is_suspended = :flag WHERE id = :id
SetSuspended(tbl, id, flag) ==
    [i \in 1..Len(tbl) |->
        IF tbl[i].id = id THEN [tbl[i] EXCEPT !.is_suspended = flag] ELSE tbl[i]]

\* no db.refresh(obj): the object keeps what the session loaded earlier
Refresh_Stale(tbl, obj) == {obj}

\* db.refresh(obj): the rows the SELECT by primary key can load into obj
Refresh(tbl, obj) == {r \in Rows(tbl) : r.id = obj.id}

(* ----------------------- get_or_create_user --------------------------- *)

\* `if email is None`: an empty string passes
EmailMissing_NoneOnly(email) == email = NoneVal

\* `if not email`
EmailMissing(email) == email = NoneVal \/ email = EmptyStr

\* db.query(UserModel).filter(UserModel.email == email): .first() takes any one
ByEmail(tbl, email) == {r \in Rows(tbl) : r.email = email}

\* `if user.id != uid and not is_signup`: the intent test inverted
SignupRejected_Inverted(u, uid, is_signup) == u.id # uid /\ ~is_signup

\* `if user.id != uid`: rejected whatever the intent
SignupRejected_AnyIntent(u, uid, is_signup) == u.id # uid

\* `if user.id == uid` under is_signup: the comparison inverted
SignupRejected_SameId(u, uid, is_signup) == u.id = uid /\ is_signup

\* `if user.id != uid` under is_signup: the signup is rejected
SignupRejected(u, uid, is_signup) == u.id # uid /\ is_signup

\* `if user.name != user_info.get("name")`: an absent name overwrites the stored one
NameChanged_Always(u, name) == u.name # name

\* `if user.name != user_info.get("name") and user_info.get("name") is not None`
NameChanged(u, name) == u.name # name /\ name # NoneVal

\* filter(UserModel.email == email): the re-read forgets the id
RequeryFilter_EmailOnly(r, email, uid) == r.email = email

\* filter(UserModel.id == uid): the re-read forgets the email
RequeryFilter_UidOnly(r, email, uid) == r.id = uid

\* no filter: the re-read takes any row
RequeryFilter_AnyRow(r, email, uid) == TRUE

\* filter((UserModel.email == email) | (UserModel.id == uid))
RequeryFilter(r, email, uid) == r.email = email \/ r.id = uid

(* --------------------------- the endpoints ---------------------------- *)

\* signup: `except ValueError` -> 409 with detail=str(e); signin and the /me
\* endpoints do not catch, so the framework answers 500
Respond(o, kind, u) ==
    [kind |-> kind, user |-> u,
     status |-> IF kind = Ok THEN 200
                ELSE IF o = "signup" /\ kind \in ValueErrors THEN 409
                ELSE 500,
     detail |-> IF kind = Ok THEN ""
                ELSE IF o = "signup" /\ kind \in ValueErrors THEN Message(kind)
                ELSE "Internal Server Error"]

\* get_or_create_user returns u or raises kind; the endpoint goes on
Return(w, kind, u) ==
    /\ result' = [result EXCEPT ![w] = Respond(op[w], kind, u)]
    /\ pc' = [pc EXCEPT ![w] =
                IF op[w] = "update_profile" /\ kind = Ok THEN "patch"
                ELSE IF op[w] = "upload_avatar" /\ kind = Ok THEN "sum_photos"
                ELSE IF op[w] = "create_event" /\ kind = Ok THEN "create"
                ELSE "done"]

\* a request arrives: the token gives uid, email and name
Start(w, o, uid, email, name, patch) ==
    /\ pc[w] \in {"idle", "done"}
    /\ pc' = [pc EXCEPT ![w] = "check_email"]
    /\ op' = [op EXCEPT ![w] = o]
    /\ req' = [req EXCEPT ![w] =
                [NoReq EXCEPT !.uid = uid, !.email = email, !.name = name,
                              !.patch = patch]]
    /\ user' = [user EXCEPT ![w] = NoUser]
    /\ result' = [result EXCEPT ![w] = NoResult]
    /\ UNCHANGED users

\* POST /auth/signup
Signup(w, uid, email, name) ==
    /\ calls < MaxCalls
    /\ calls' = calls + 1
    /\ Start(w, "signup", uid, email, name, NoneVal)
    /\ hist' = [hist EXCEPT ![w] = NoHist]
    /\ UNCHANGED media

\* POST /auth/signin
Signin(w, uid, email, name) ==
    /\ calls < MaxCalls
    /\ calls' = calls + 1
    /\ Start(w, "signin", uid, email, name, NoneVal)
    /\ hist' = [hist EXCEPT ![w] = NoHist]
    /\ UNCHANGED media

\* PATCH /me
UpdateProfile(w, uid, email, name, patch) ==
    /\ calls < MaxCalls
    /\ calls' = calls + 1
    /\ Start(w, "update_profile", uid, email, name, patch)
    /\ hist' = [hist EXCEPT ![w] = NoHist]
    /\ UNCHANGED media

\* crud.py 34-38
CheckEmail(w) ==
    /\ pc[w] = "check_email"
    /\ IF EmailMissing(req[w].email)
         THEN Return(w, InvalidInput, NoUser)
         ELSE /\ pc' = [pc EXCEPT ![w] = "lookup"]
              /\ UNCHANGED result
    /\ UNCHANGED <<users, op, req, user, calls, hist, media>>

\* crud.py 41-64: the lookup by email and the branch on what it found
Lookup(w) ==
    /\ pc[w] = "lookup"
    /\ hist' = [hist EXCEPT ![w].queries = @ + 1, ![w].lookups = @ + 1]
    /\ IF ByEmail(users, req[w].email) = {}
         THEN /\ pc' = [pc EXCEPT ![w] = "insert"]
              /\ UNCHANGED <<user, result>>
         ELSE \E u \in ByEmail(users, req[w].email) :
                /\ user' = [user EXCEPT ![w] = u]
                /\ IF SignupRejected(u, req[w].uid, op[w] = "signup")
                     THEN Return(w, DuplicateIdentity, NoUser)
                     ELSE IF NameChanged(u, req[w].name)
                       THEN /\ pc' = [pc EXCEPT ![w] = "update"]
                            /\ UNCHANGED result
                       ELSE Return(w, Ok, u)
    /\ UNCHANGED <<users, op, req, calls, media>>

\* crud.py 65-66: user.name = name; db.commit()
UpdateName(w) ==
    /\ pc[w] = "update"
    /\ IF Refresh(users, user[w]) = {}
         THEN /\ Return(w, StaleDataError, NoUser)
              /\ UNCHANGED <<users, hist>>
         ELSE /\ users' = SetName(users, user[w].id, req[w].name)
              /\ hist' = [hist EXCEPT ![w].updates = @ + 1]
              /\ pc' = [pc EXCEPT ![w] = "refresh"]
              /\ UNCHANGED result
    /\ UNCHANGED <<op, req, user, calls, media>>

\* crud.py 67-69: db.refresh(user); return user
\* crud.py 80: db.refresh(new_user)
RefreshUser(w) ==
    /\ pc[w] = "refresh"
    /\ IF Refresh(users, user[w]) = {}
         THEN /\ Return(w, StaleDataError, NoUser)
              /\ UNCHANGED user
         ELSE \E u \in Refresh(users, user[w]) :
                /\ user' = [user EXCEPT ![w] = u]
                /\ IF hist[w].inserts > 0
                     THEN /\ pc' = [pc EXCEPT ![w] = "reread"]
                          /\ UNCHANGED result
                     ELSE Return(w, Ok, u)
    /\ UNCHANGED <<users, op, req, calls, hist, media>>

\* crud.py 81: return db.query(UserModel).filter(UserModel.id == new_user.id).first()
\* The session maps the row found to the object it already holds for that
\* primary key, new_user as refreshed by line 80; with no row, .first() is None
\* and the endpoint fails on user.email.
Reread(w) ==
    /\ pc[w] = "reread"
    /\ hist' = [hist EXCEPT ![w].queries = @ + 1]
    /\ IF Refresh(users, user[w]) = {}
         THEN Return(w, NoneReturned, NoUser)
         ELSE Return(w, Ok, user[w])
    /\ UNCHANGED <<users, op, req, user, calls, media>>

\* the IntegrityError handled by starting over at the lookup
Insert_Retry(w) ==
    /\ pc[w] = "insert"
    /\ LET new_user == NewUser(req[w].uid, req[w].email, req[w].name) IN
       IF InsertConflict(users, new_user)
         THEN /\ pc' = [pc EXCEPT ![w] = "lookup"]
              /\ hist' = [hist EXCEPT ![w].insertFailed = TRUE,
                                      ![w].attempts = @ + 1]
              /\ UNCHANGED <<users, user>>
         ELSE /\ users' = Append(users, new_user)
              /\ user' = [user EXCEPT ![w] = new_user]
              /\ hist' = [hist EXCEPT ![w].inserts = @ + 1,
                                      ![w].attempts = @ + 1]
              /\ pc' = [pc EXCEPT ![w] = "refresh"]
    /\ UNCHANGED <<op, req, result, calls, media>>

\* crud.py 73-79 and 82-84: db.add(new_user); db.commit(), or the
\* IntegrityError and db.rollback()
Insert(w) ==
    /\ pc[w] = "insert"
    /\ LET new_user == NewUser(req[w].uid, req[w].email, req[w].name) IN
       IF InsertConflict(users, new_user)
         THEN /\ pc' = [pc EXCEPT ![w] = "requery"]
              /\ hist' = [hist EXCEPT ![w].insertFailed = TRUE,
                                      ![w].attempts = @ + 1]
              /\ UNCHANGED <<users, user>>
         ELSE /\ users' = Append(users, new_user)
              /\ user' = [user EXCEPT ![w] = new_user]
              /\ hist' = [hist EXCEPT ![w].inserts = @ + 1,
                                      ![w].attempts = @ + 1]
              /\ pc' = [pc EXCEPT ![w] = "refresh"]
    /\ UNCHANGED <<op, req, result, calls, media>>

\* crud.py 86-92: the re-read after the IntegrityError
Requery(w) ==
    /\ pc[w] = "requery"
    /\ hist' = [hist EXCEPT ![w].queries = @ + 1,
                            ![w].requeries = @ + 1,
                            ![w].requeried = TRUE,
                            ![w].matchAtRequery =
                                \E r \in Rows(users) :
                                    r.email = req[w].email \/ r.id = req[w].uid]
    /\ LET found == {r \in Rows(users) :
                        RequeryFilter(r, req[w].email, req[w].uid)} IN
       IF found = {}
         THEN /\ Return(w, ReconciliationFailed, NoUser)
              /\ UNCHANGED user
         ELSE \E u \in found :
                /\ user' = [user EXCEPT ![w] = u]
                /\ Return(w, Ok, u)
    /\ UNCHANGED <<users, op, req, calls, media>>

\* profiles.py 56-63: db_user.name = request.name; db.commit()
PatchProfile(w) ==
    /\ pc[w] = "patch"
    /\ IF req[w].patch = NoneVal
         THEN /\ pc' = [pc EXCEPT ![w] = "patch_refresh"]
              /\ UNCHANGED <<users, result>>
         ELSE IF Refresh(users, user[w]) = {}
           THEN /\ pc' = [pc EXCEPT ![w] = "done"]
                /\ result' = [result EXCEPT ![w] =
                                Respond(op[w], StaleDataError, NoUser)]
                /\ UNCHANGED users
           ELSE /\ users' = SetName(users, user[w].id, req[w].patch)
                /\ pc' = [pc EXCEPT ![w] = "patch_refresh"]
                /\ UNCHANGED result
    /\ UNCHANGED <<op, req, user, calls, hist, media>>

\* profiles.py 64-73: db.refresh(db_user) and the response
PatchRefresh(w) ==
    /\ pc[w] = "patch_refresh"
    /\ pc' = [pc EXCEPT ![w] = "done"]
    /\ IF Refresh(users, user[w]) = {}
         THEN /\ result' = [result EXCEPT ![w] =
                                Respond(op[w], StaleDataError, NoUser)]
              /\ UNCHANGED user
         ELSE \E u \in Refresh(users, user[w]) :
                /\ user' = [user EXCEPT ![w] = u]
                /\ result' = [result EXCEPT ![w] = Respond(op[w], Ok, u)]
    /\ UNCHANGED <<users, op, req, calls, hist, media>>

\* PATCH /admin/users/{user_id}/status (404 when no such user)
UpdateUserStatus(user_id, is_suspended) ==
    /\ \E r \in Rows(users) : r.id = user_id /\ r.is_suspended # is_suspended
    /\ users' = SetSuspended(users, user_id, is_suspended)
    /\ UNCHANGED <<pc, op, req, user, result, calls, hist, media>>

\* clear_database.py: DELETE FROM photos, events, users; commit
ClearDatabase ==
    /\ users # << >>
    /\ users' = << >>
    /\ events' = << >>
    /\ photos' = << >>
    /\ UNCHANGED <<pc, op, req, user, result, calls, hist, dialect, up, accepted>>

(* ------------------ the events and photos tables ---------------------- *)

EventIds == {"ev1", "ev2"}

\* EventModel(id=..., host_id=host.id, ...): a row of the events table, with
\* the columns the routers and get_user_upload_size use (the class Event is
\* declared in app/models/event.py)
NewEvent(id, host_id, cover) ==
    [id |-> id, host_id |-> host_id, cover_image_file_size |-> cover,
     is_active |-> TRUE, is_archived |-> FALSE, password |-> NoneVal]

\* PhotoModel(...) with uploaded_by left out
NewPhoto_NoUploader(id, event_id, host_id, file_size) ==
    [id |-> id, event_id |-> event_id, approved |-> FALSE,
     uploaded_by |-> NoneVal, file_size |-> Str(file_size)]

\* PhotoModel(id=uuid4, event_id=event.id, approved=False, uploaded_by=host_id,
\* file_size=file_size): the int goes into the String column as its text
NewPhoto(id, event_id, host_id, file_size) ==
    [id |-> id, event_id |-> event_id, approved |-> FALSE,
     uploaded_by |-> host_id, file_size |-> Str(file_size)]

\* str(uuid.uuid4()): an id no photo row has
NextPhotoId(tbl) ==
    IF tbl = << >> THEN 1
    ELSE 1 + (CHOOSE m \in {tbl[i].id : i \in 1..Len(tbl)} :
                    \A i \in 1..Len(tbl) : tbl[i].id <= m)

\* setattr(event, key, value) on the row with the id, then db.commit()
SetAttr(tbl, id, key, value) ==
    [i \in 1..Len(tbl) |->
        IF tbl[i].id = id THEN [tbl[i] EXCEPT ![key] = value] ELSE tbl[i]]

\* db.delete(event): the row leaves the events table
DeleteRow(tbl, id) == SelectSeq(tbl, LAMBDA e : e.id # id)

\* the delete that leaves the photos of the event behind
DeletePhotosOf_None(tbl, event_id) == tbl

\* relationship("Photo", cascade="all, delete-orphan") on Event.photos: the
\* photos of a deleted event are deleted with it
DeletePhotosOf(tbl, event_id) == SelectSeq(tbl, LAMBDA p : p.event_id # event_id)

\* filter(EventModel.id.in_(request.event_ids), EventModel.host_id == user["uid"])
\* .update({key: value})
BulkUpdate(tbl, event_ids, uid, key, value) ==
    [i \in 1..Len(tbl) |->
        IF tbl[i].id \in event_ids /\ tbl[i].host_id = uid
          THEN [tbl[i] EXCEPT ![key] = value]
          ELSE tbl[i]]

\* UPDATE events SET cover_image_file_size = :file_size WHERE id = :id
SetCover(tbl, id, file_size) ==
    [i \in 1..Len(tbl) |->
        IF tbl[i].id = id
          THEN [tbl[i] EXCEPT !.cover_image_file_size = Str(file_size)]
          ELSE tbl[i]]

\* UPDATE users SET avatar_file_size = :file_size WHERE id = :id (the column
\* profiles.py writes and crud.py reads; the class User does not declare it)
SetAvatar(tbl, id, file_size) ==
    [i \in 1..Len(tbl) |->
        IF tbl[i].id = id
          THEN [tbl[i] EXCEPT !.avatar_file_size = Str(file_size)]
          ELSE tbl[i]]

(* ----------------------- get_user_upload_size ------------------------- *)

\* filter(PhotoModel.uploaded_by == user_id): the file_size column of the rows
PhotoSizes(tbl, user_id) ==
    LET sel == SelectSeq(tbl, LAMBDA p : p.uploaded_by = user_id) IN
    [i \in 1..Len(sel) |-> sel[i].file_size]

\* the join and the filter left out: every event's cover counts
CoverSizes_AnyHost(etbl, utbl, user_id) ==
    [i \in 1..Len(etbl) |-> etbl[i].cover_image_file_size]

\* .join(UserModel).filter(UserModel.id == user_id): the cover_image_file_size
\* column of the events whose host row is the user's
CoverSizes(etbl, utbl, user_id) ==
    LET sel == SelectSeq(etbl, LAMBDA e :
                    \E r \in Rows(utbl) : r.id = e.host_id /\ r.id = user_id) IN
    [i \in 1..Len(sel) |-> sel[i].cover_image_file_size]

\* db.query(UserModel).filter(UserModel.id == user_id).first() and its avatar
AvatarOf(utbl, user_id) ==
    IF \E r \in Rows(utbl) : r.id = user_id
      THEN AvatarContribution((CHOOSE r \in Rows(utbl) : r.id = user_id).avatar_file_size)
      ELSE 0

\* get_user_upload_size(db, user_id) run against one state of the store
UploadSize(user_id) ==
    LET photo_size == SqlSum(PhotoSizes(photos, user_id), dialect)
        event_cover_size == SqlSum(CoverSizes(events, users, user_id), dialect)
    IN [err |-> photo_size.err \/ event_cover_size.err,
        val |-> Contribution(photo_size) + Contribution(event_cover_size)
                    + AvatarOf(users, user_id)]

(* ------------------------- the upload endpoints ----------------------- *)

MAX_UPLOAD_SIZE_PER_USER == 1 * 1024 * 1024 * 1024

max_size == 10 * 1024 * 1024

\* how an upload or a quota call can end besides Ok
NotFound == "NotFound"
Forbidden == "Forbidden"
BadRequest == "BadRequest"
QuotaExceeded == "QuotaExceeded"
DataError == "DataError"
StorageError == "StorageError"
IntegrityError == "IntegrityError"
Unauthorized == "Unauthorized"

\* the status code of each ending
UploadStatus(kind) ==
    CASE kind = Ok -> 200
      [] kind = NotFound -> 404
      [] kind = Unauthorized -> 401
      [] kind = Forbidden -> 403
      [] kind = BadRequest -> 400
      [] kind = QuotaExceeded -> 413
      [] OTHER -> 500

\* the request of worker w ends
Answer(w, kind) ==
    /\ result' = [result EXCEPT ![w] =
                    [kind |-> kind, user |-> NoUser,
                     status |-> UploadStatus(kind), detail |-> ""]]
    /\ pc' = [pc EXCEPT ![w] = "done"]

\* the request of worker w goes on to get_user_upload_size
ToQuota(w, o, event_id, user_id, file_size) ==
    /\ pc' = [pc EXCEPT ![w] = "sum_photos"]
    /\ result' = [result EXCEPT ![w] = NoResult]
    /\ up' = [up EXCEPT ![w] = [NoUp EXCEPT !.event_id = event_id,
                                            !.user_id = user_id,
                                            !.file_size = file_size]]

\* a direct call of get_user_upload_size(db, user_id)
GetUserUploadSize(w, user_id) ==
    /\ pc[w] \in {"idle", "done"}
    /\ op' = [op EXCEPT ![w] = "total"]
    /\ ToQuota(w, "total", NoneVal, user_id, 0)
    /\ UNCHANGED <<users, req, user, calls, hist, events, photos, dialect, accepted>>

\* crud.py 100-103: the sum over the photos
SumPhotos(w) ==
    /\ pc[w] = "sum_photos"
    /\ LET photo_size == SqlSum(PhotoSizes(photos, up[w].user_id), dialect) IN
       IF photo_size.err
         THEN /\ Answer(w, DataError)
              /\ UNCHANGED up
         ELSE /\ pc' = [pc EXCEPT ![w] = "sum_covers"]
              /\ up' = [up EXCEPT ![w].total_size = 0 + Contribution(photo_size)]
              /\ UNCHANGED result
    /\ UNCHANGED <<users, op, req, user, calls, hist, events, photos, dialect, accepted>>

\* crud.py 105-108: the sum over the covers of the user's events
SumCovers(w) ==
    /\ pc[w] = "sum_covers"
    /\ LET event_cover_size ==
            SqlSum(CoverSizes(events, users, up[w].user_id), dialect) IN
       IF event_cover_size.err
         THEN /\ Answer(w, DataError)
              /\ UNCHANGED up
         ELSE /\ pc' = [pc EXCEPT ![w] = "read_avatar"]
              /\ up' = [up EXCEPT ![w].total_size = @ + Contribution(event_cover_size)]
              /\ UNCHANGED result
    /\ UNCHANGED <<users, op, req, user, calls, hist, events, photos, dialect, accepted>>

\* crud.py 110-118: the avatar and the return; then the caller's
\* `if current_upload_size + file_size > MAX_UPLOAD_SIZE_PER_USER: raise 413`
ReadAvatar(w) ==
    /\ pc[w] = "read_avatar"
    /\ LET total_size == up[w].total_size + AvatarOf(users, up[w].user_id) IN
       /\ up' = [up EXCEPT ![w].total_size = total_size,
                           ![w].current_upload_size = total_size]
       /\ IF op[w] = "total"
            THEN Answer(w, Ok)
            ELSE IF total_size + up[w].file_size > MAX_UPLOAD_SIZE_PER_USER
              THEN Answer(w, QuotaExceeded)
              ELSE /\ pc' = [pc EXCEPT ![w] = "store"]
                   /\ UNCHANGED result
    /\ UNCHANGED <<users, op, req, user, calls, hist, events, photos, dialect, accepted>>

\* one statement of get_user_upload_size
QuotaStep(w) ==
    \/ SumPhotos(w)
    \/ SumCovers(w)
    \/ ReadAvatar(w)

\* `if x:` on an Optional[str]: None and the empty string are false
Truthy(x) == x # NoneVal /\ x # ""

\* filter(EventModel.id == slug, is_active == True, is_archived == False)
GetEventBySlug(tbl, slug) ==
    {e \in Rows(tbl) : e.id = slug /\ e.is_active /\ ~e.is_archived}

\* the check that lets every password through
PasswordRejected_Never(event, password) == FALSE

\* public.py 163-173: `if event.password:` then 401 on `not password` and on
\* `event.password != password`
PasswordRejected(event, password) ==
    /\ Truthy(event.password)
    /\ (~Truthy(password) \/ event.password # password)

\* POST /public/events/{slug}/photos, up to the quota check
UploadPublicPhoto(w, slug, password, file_size) ==
    /\ pc[w] \in {"idle", "done"}
    /\ calls < MaxUploads
    /\ calls' = calls + 1
    /\ op' = [op EXCEPT ![w] = "upload_public_photo"]
    /\ req' = [req EXCEPT ![w] = [NoReq EXCEPT !.event_id = slug,
                                               !.password = password]]
    /\ LET found == GetEventBySlug(events, slug) IN
       IF found = {}
         THEN /\ Answer(w, NotFound)
              /\ up' = [up EXCEPT ![w] = NoUp]
         ELSE \E event \in found :
                IF PasswordRejected(event, password)
                  THEN /\ Answer(w, Unauthorized)
                       /\ up' = [up EXCEPT ![w] = NoUp]
                  ELSE IF file_size > max_size \/ file_size = 0
                    THEN /\ Answer(w, BadRequest)
                         /\ up' = [up EXCEPT ![w] = NoUp]
                    ELSE ToQuota(w, "upload_public_photo", event.id,
                                 event.host_id, file_size)
    /\ UNCHANGED <<users, user, hist, events, photos, dialect, accepted>>

\* POST /events/{event_id}/cover, up to the quota check
UploadEventCoverImage(w, event_id, uid, file_size) ==
    /\ pc[w] \in {"idle", "done"}
    /\ calls < MaxUploads
    /\ calls' = calls + 1
    /\ op' = [op EXCEPT ![w] = "upload_event_cover_image"]
    /\ req' = [req EXCEPT ![w] = [NoReq EXCEPT !.uid = uid, !.event_id = event_id]]
    /\ LET found == {e \in Rows(events) : e.id = event_id} IN
       IF found = {}
         THEN /\ Answer(w, NotFound)
              /\ up' = [up EXCEPT ![w] = NoUp]
         ELSE \E event \in found :
                IF event.host_id # uid
                  THEN /\ Answer(w, Forbidden)
                       /\ up' = [up EXCEPT ![w] = NoUp]
                  ELSE ToQuota(w, "upload_event_cover_image", event.id, uid, file_size)
    /\ UNCHANGED <<users, user, hist, events, photos, dialect, accepted>>

\* POST /me/avatar: db_user = get_or_create_user(db, user) comes first
UploadAvatar(w, uid, email, name, file_size) ==
    /\ calls < MaxUploads
    /\ calls' = calls + 1
    /\ Start(w, "upload_avatar", uid, email, name, NoneVal)
    /\ hist' = [hist EXCEPT ![w] = NoHist]
    /\ up' = [up EXCEPT ![w] = [NoUp EXCEPT !.user_id = uid,
                                            !.file_size = file_size]]
    /\ UNCHANGED <<events, photos, dialect, accepted>>

\* upload_image(file) fails: the endpoint answers 500 and stores nothing
StorageFails(w) ==
    /\ pc[w] = "store"
    /\ Answer(w, StorageError)
    /\ UNCHANGED <<users, op, req, user, calls, hist, media>>

\* the id of the account an accepted upload of worker w puts its size on: the
\* photo's uploaded_by, the host of the event, the row db_user
ChargedUser(w) ==
    CASE op[w] = "upload_public_photo" -> up[w].user_id
      [] op[w] = "upload_event_cover_image" ->
            (CHOOSE e \in Rows(events) : e.id = up[w].event_id).host_id
      [] op[w] = "upload_avatar" -> user[w].id

\* what the log of accepted uploads keeps of the request of worker w
Accepted(w) ==
    [op |-> op[w], event_id |-> up[w].event_id, uid |-> req[w].uid,
     user_id |-> ChargedUser(w), file_size |-> up[w].file_size]

\* the insert made only if the total as it is now leaves room for the file
StorePhoto_Reserving(w) ==
    /\ pc[w] = "store"
    /\ op[w] = "upload_public_photo"
    /\ IF UploadSize(up[w].user_id).val + up[w].file_size > MAX_UPLOAD_SIZE_PER_USER
         THEN /\ Answer(w, QuotaExceeded)
              /\ UNCHANGED <<photos, accepted>>
         ELSE /\ photos' = Append(photos, NewPhoto(NextPhotoId(photos), up[w].event_id,
                                                  up[w].user_id, up[w].file_size))
              /\ accepted' = Append(accepted, Accepted(w))
              /\ Answer(w, Ok)
    /\ UNCHANGED <<users, op, req, user, calls, hist, events, dialect, up>>

\* public.py 234-252: db.add(new_photo); db.commit()
StorePhoto(w) ==
    /\ pc[w] = "store"
    /\ op[w] = "upload_public_photo"
    /\ IF \A e \in Rows(events) : e.id # up[w].event_id
         THEN /\ Answer(w, IntegrityError)
              /\ UNCHANGED <<photos, accepted>>
         ELSE /\ photos' = Append(photos, NewPhoto(NextPhotoId(photos), up[w].event_id,
                                                  up[w].user_id, up[w].file_size))
              /\ accepted' = Append(accepted, Accepted(w))
              /\ Answer(w, Ok)
    /\ UNCHANGED <<users, op, req, user, calls, hist, events, dialect, up>>

\* events.py 194-202: event.cover_image_file_size = file_size; db.commit()
StoreCover(w) ==
    /\ pc[w] = "store"
    /\ op[w] = "upload_event_cover_image"
    /\ IF \A e \in Rows(events) : e.id # up[w].event_id
         THEN /\ Answer(w, StaleDataError)
              /\ UNCHANGED <<events, accepted>>
         ELSE /\ events' = SetCover(events, up[w].event_id, up[w].file_size)
              /\ accepted' = Append(accepted, Accepted(w))
              /\ Answer(w, Ok)
    /\ UNCHANGED <<users, op, req, user, calls, hist, photos, dialect, up>>

\* profiles.py 127-135: db_user.avatar_file_size = file_size; db.commit()
StoreAvatar(w) ==
    /\ pc[w] = "store"
    /\ op[w] = "upload_avatar"
    /\ IF Refresh(users, user[w]) = {}
         THEN /\ Answer(w, StaleDataError)
              /\ UNCHANGED <<users, accepted>>
         ELSE /\ users' = SetAvatar(users, user[w].id, up[w].file_size)
              /\ accepted' = Append(accepted, Accepted(w))
              /\ Answer(w, Ok)
    /\ UNCHANGED <<op, req, user, calls, hist, events, photos, dialect, up>>

(* ------------------- the host's event endpoints ------------------------ *)

\* the check that lets every caller through to an event that exists
VerifyEventOwnership_AnyCaller(tbl, event_id, user_id) ==
    IF \A e \in Rows(tbl) : e.id # event_id THEN NotFound ELSE Ok

\* events.py 31-46: 404 when no event has the id, 403 when its host_id is not
\* the caller's id
VerifyEventOwnership(tbl, event_id, user_id) ==
    IF \A e \in Rows(tbl) : e.id # event_id
      THEN NotFound
      ELSE IF (CHOOSE e \in Rows(tbl) : e.id = event_id).host_id # user_id
        THEN Forbidden
        ELSE Ok

\* str(uuid.uuid4()): the ids no event has or had
FreshEventIds ==
    EventIds \ ({e.id : e \in Rows(events)}
                    \cup {accepted[i].event_id : i \in 1..Len(accepted)})

\* a request on /events/{event_id} or an admin or public request arrives
Call(w, o, event_id, uid, body) ==
    /\ pc[w] \in {"idle", "done"}
    /\ calls < MaxHostCalls
    /\ calls' = calls + 1
    /\ op' = [op EXCEPT ![w] = o]
    /\ req' = [req EXCEPT ![w] = [NoReq EXCEPT !.uid = uid, !.event_id = event_id,
                                               !.patch = body]]

\* POST /events: host = get_or_create_user(db, user) comes first
CreateEvent(w, uid, email, name, password) ==
    /\ calls < MaxHostCalls
    /\ calls' = calls + 1
    /\ FreshEventIds # {}
    /\ Start(w, "create_event", uid, email, name, [password |-> password])
    /\ hist' = [hist EXCEPT ![w] = NoHist]
    /\ up' = [up EXCEPT ![w] = NoUp]
    /\ UNCHANGED <<events, photos, dialect, accepted>>

\* events.py 61-70: EventModel(id=uuid4, host_id=host.id, **event_data.dict());
\* db.add; db.commit
InsertEvent(w) ==
    /\ pc[w] = "create"
    /\ IF \A r \in Rows(users) : r.id # user[w].id
         THEN /\ Answer(w, IntegrityError)
              /\ UNCHANGED <<events, accepted, up>>
         ELSE \E id \in FreshEventIds :
                /\ events' = Append(events,
                        [NewEvent(id, user[w].id, NullText)
                            EXCEPT !.password = req[w].patch.password])
                /\ accepted' = Append(accepted,
                        [op |-> "create_event", event_id |-> id,
                         uid |-> req[w].uid, user_id |-> user[w].id,
                         file_size |-> 0])
                /\ up' = [up EXCEPT ![w] = [NoUp EXCEPT !.event_id = id]]
                /\ Answer(w, Ok)
    /\ UNCHANGED <<users, op, req, user, calls, hist, photos, dialect>>

\* GET /events/{event_id}
GetEventDetail(w, event_id, uid) ==
    /\ Call(w, "get_event_detail", event_id, uid, NoneVal)
    /\ Answer(w, VerifyEventOwnership(events, event_id, uid))
    /\ up' = [up EXCEPT ![w] = [NoUp EXCEPT !.event_id = event_id]]
    /\ UNCHANGED <<users, user, hist, events, photos, dialect, accepted>>

\* PATCH /events/{event_id}: setattr for the field the body sets, db.commit
UpdateEventMetadata(w, event_id, uid, key, value) ==
    /\ Call(w, "update_event_metadata", event_id, uid, [key |-> key, value |-> value])
    /\ LET verdict == VerifyEventOwnership(events, event_id, uid) IN
       /\ Answer(w, verdict)
       /\ events' = IF verdict = Ok THEN SetAttr(events, event_id, key, value)
                    ELSE events
    /\ up' = [up EXCEPT ![w] = [NoUp EXCEPT !.event_id = event_id]]
    /\ UNCHANGED <<users, user, hist, photos, dialect, accepted>>

\* DELETE /events/{event_id}: db.delete(event); db.commit()
DeleteEvent(w, event_id, uid) ==
    /\ Call(w, "delete_event", event_id, uid, NoneVal)
    /\ LET verdict == VerifyEventOwnership(events, event_id, uid) IN
       /\ Answer(w, verdict)
       /\ events' = IF verdict = Ok THEN DeleteRow(events, event_id) ELSE events
       /\ photos' = IF verdict = Ok THEN DeletePhotosOf(photos, event_id) ELSE photos
    /\ up' = [up EXCEPT ![w] = [NoUp EXCEPT !.event_id = event_id]]
    /\ UNCHANGED <<users, user, hist, dialect, accepted>>

BulkActionNames == {"archive", "activate", "deactivate"}

\* POST /events/actions/bulk
BulkActionsOnEvents(w, uid, event_ids, action) ==
    /\ Call(w, "bulk_actions_on_events", NoneVal, uid,
            [event_ids |-> event_ids, action |-> action])
    /\ IF action \notin BulkActionNames
         THEN /\ Answer(w, BadRequest)
              /\ UNCHANGED events
         ELSE /\ Answer(w, Ok)
              /\ events' =
                    CASE action = "archive" ->
                            BulkUpdate(events, event_ids, uid, "is_archived", TRUE)
                      [] action = "activate" ->
                            BulkUpdate(events, event_ids, uid, "is_active", TRUE)
                      [] action = "deactivate" ->
                            BulkUpdate(events, event_ids, uid, "is_active", FALSE)
    /\ up' = [up EXCEPT ![w] = NoUp]
    /\ UNCHANGED <<users, user, hist, photos, dialect, accepted>>

\* PATCH /events/{event_id}/photos/{photo_id} (photos.py): the endpoint works
\* on the dictionaries MOCK_DB_EVENTS and MOCK_DB_PHOTOS of the process, never
\* on the database; no event is in them, so the answer is 404
UpdatePhoto(w, event_id, photo_id, uid, approved) ==
    /\ Call(w, "update_photo", event_id, uid,
            [photo_id |-> photo_id, approved |-> approved])
    /\ Answer(w, NotFound)
    /\ up' = [up EXCEPT ![w] = NoUp]
    /\ UNCHANGED <<users, user, hist, events, photos, dialect, accepted>>

(* ---------------------- the public read endpoints ----------------------- *)

\* the listing without the approved filter
ApprovedPhotos_All(tbl, event_id) ==
    {p \in Rows(tbl) : p.event_id = event_id}

\* filter(PhotoModel.event_id == event.id, PhotoModel.approved == True)
ApprovedPhotos(tbl, event_id) ==
    {p \in Rows(tbl) : p.event_id = event_id /\ p.approved = TRUE}

\* GET /public/events/{slug}: photo_count
GetPublicEventInfo(w, slug) ==
    /\ Call(w, "get_public_event_info", slug, NoneVal, NoneVal)
    /\ LET found == GetEventBySlug(events, slug) IN
       IF found = {}
         THEN /\ Answer(w, NotFound)
              /\ up' = [up EXCEPT ![w] = NoUp]
         ELSE \E event \in found :
                /\ Answer(w, Ok)
                /\ up' = [up EXCEPT ![w] =
                            [NoUp EXCEPT !.event_id = event.id,
                                !.photo_count =
                                    Cardinality(ApprovedPhotos(photos, event.id))]]
    /\ UNCHANGED <<users, user, hist, events, photos, dialect, accepted>>

\* GET /public/events/{slug}/photos: photos and total
GetPublicEventPhotos(w, slug) ==
    /\ Call(w, "get_public_event_photos", slug, NoneVal, NoneVal)
    /\ LET found == GetEventBySlug(events, slug) IN
       IF found = {}
         THEN /\ Answer(w, NotFound)
              /\ up' = [up EXCEPT ![w] = NoUp]
         ELSE \E event \in found :
                /\ Answer(w, Ok)
                /\ up' = [up EXCEPT ![w] =
                            [NoUp EXCEPT !.event_id = event.id,
                                !.photos = ApprovedPhotos(photos, event.id),
                                !.photo_count =
                                    Cardinality(ApprovedPhotos(photos, event.id))]]
    /\ UNCHANGED <<users, user, hist, events, photos, dialect, accepted>>

(* ------------------- the admin's event endpoints ------------------------ *)

\* PATCH /admin/events/{event_id}/status: only is_active and is_archived, and
\* only a value that is not None, are set (value: << >> for None, <<b>> for b)
UpdateEventStatus(w, event_id, key, value) ==
    /\ Call(w, "update_event_status", event_id, NoneVal, [key |-> key, value |-> value])
    /\ IF \A e \in Rows(events) : e.id # event_id
         THEN /\ Answer(w, NotFound)
              /\ UNCHANGED events
         ELSE /\ Answer(w, Ok)
              /\ events' = IF key \in {"is_active", "is_archived"} /\ value # << >>
                             THEN SetAttr(events, event_id, key, value[1])
                             ELSE events
    /\ up' = [up EXCEPT ![w] = [NoUp EXCEPT !.event_id = event_id]]
    /\ UNCHANGED <<users, user, hist, photos, dialect, accepted>>

\* DELETE /admin/events/{event_id}: db.delete(event); db.commit()
ForceDeleteEvent(w, event_id) ==
    /\ Call(w, "force_delete_event", event_id, NoneVal, NoneVal)
    /\ IF \A e \in Rows(events) : e.id # event_id
         THEN /\ Answer(w, NotFound)
              /\ UNCHANGED <<events, photos>>
         ELSE /\ Answer(w, Ok)
              /\ events' = DeleteRow(events, event_id)
              /\ photos' = DeletePhotosOf(photos, event_id)
    /\ up' = [up EXCEPT ![w] = [NoUp EXCEPT !.event_id = event_id]]
    /\ UNCHANGED <<users, user, hist, dialect, accepted>>

(* ------------------ Spec: concurrent requests ------------------------- *)

ConcEmails == RealEmails
ConcNames == {NoneVal, "n1"}
\* the display name of the tokens presented to /auth/signup and /auth/signin
SignNames == {"n1"}
\* PATCH /me: the token carries no display name, the request sets one
ProfileNames == {NoneVal}
ConcPatches == {"n2"}
\* the account the admin suspends or reactivates
StatusIds == {"u1"}

InitWorkers(W) ==
    /\ pc = [w \in W |-> "idle"]
    /\ op = [w \in W |-> "none"]
    /\ req = [w \in W |-> NoReq]
    /\ user = [w \in W |-> NoUser]
    /\ result = [w \in W |-> NoResult]
    /\ hist = [w \in W |-> NoHist]
    /\ up = [w \in W |-> NoUp]
    /\ calls = 0

\* no event and no photo yet
NoMedia ==
    /\ events = << >>
    /\ photos = << >>
    /\ accepted = << >>
    /\ dialect = "postgresql"

Init ==
    /\ users = << >>
    /\ InitWorkers(Workers)
    /\ NoMedia

\* one statement of get_or_create_user or of the endpoint around it
Step(w) ==
    \/ CheckEmail(w)
    \/ Lookup(w)
    \/ UpdateName(w)
    \/ RefreshUser(w)
    \/ Insert(w)
    \/ Reread(w)
    \/ Requery(w)

Next ==
    \/ \E w \in Workers, uid \in UIDs, email \in ConcEmails, name \in SignNames :
            \/ Signup(w, uid, email, name)
            \/ Signin(w, uid, email, name)
    \/ \E w \in Workers, uid \in UIDs, email \in ConcEmails,
          name \in ProfileNames, patch \in ConcPatches :
            UpdateProfile(w, uid, email, name, patch)
    \/ \E w \in Workers :
            \/ Step(w)
            \/ PatchProfile(w)
            \/ PatchRefresh(w)
    \/ \E user_id \in StatusIds, is_suspended \in BOOLEAN :
            UpdateUserStatus(user_id, is_suspended)

Spec == Init /\ [][Next]_vars

(* ------ SpecClear: reconcile calls beside clear_database.py ----------- *)

NextClear ==
    \/ \E w \in Workers, uid \in UIDs, email \in ConcEmails, name \in ConcNames :
            \/ Signup(w, uid, email, name)
            \/ Signin(w, uid, email, name)
    \/ \E w \in Workers : Step(w)
    \/ ClearDatabase

SpecClear == Init /\ [][NextClear]_vars

(* ------- SpecSeq: one request at a time, from any users table --------- *)

\* the tables the constraints of app/models/user.py allow: ids and emails unique
UserRows ==
    [id : UIDs, email : RealEmails, name : Names,
     is_admin : {FALSE}, is_suspended : BOOLEAN, avatar_file_size : {NullText}]

ValidStores ==
    {s \in UNION {[1..n -> UserRows] : n \in 0..MaxRows} :
        \A i, j \in 1..Len(s) :
            i # j => s[i].id # s[j].id /\ s[i].email # s[j].email}

InitSeq ==
    /\ users \in ValidStores
    /\ InitWorkers({1})
    /\ NoMedia

\* a reconcile call through /auth/signup or /auth/signin
SeqCall(w, o, uid, email, name) ==
    /\ pc[w] = "idle"
    /\ Start(w, o, uid, email, name, NoneVal)
    /\ calls' = 1
    /\ hist' = [hist EXCEPT ![w] = [NoHist EXCEPT !.pre = users]]
    /\ UNCHANGED media

\* the same request again, right after its answer
Repeat(w) ==
    /\ pc[w] = "done"
    /\ calls < MaxSeqCalls
    /\ calls' = calls + 1
    /\ pc' = [pc EXCEPT ![w] = "check_email"]
    /\ user' = [user EXCEPT ![w] = NoUser]
    /\ result' = [result EXCEPT ![w] = NoResult]
    /\ hist' = [hist EXCEPT ![w] =
                    [NoHist EXCEPT !.pre = users,
                                   !.round = hist[w].round + 1,
                                   !.prevResult = result[w],
                                   !.prevInserts = hist[w].prevInserts + hist[w].inserts]]
    /\ UNCHANGED <<users, op, req, media>>

NextSeq ==
    \/ \E o \in {"signup", "signin"}, uid \in UIDs, email \in Emails, name \in Names :
            SeqCall(1, o, uid, email, name)
    \/ Repeat(1)
    \/ Step(1)

SpecSeq == InitSeq /\ [][NextSeq]_vars

(* ----- SpecRace: N simultaneous reconcile calls with one email -------- *)

Racers == 1..NumRacers
RaceEmail == "e1"
OtherEmail == "e2"

\* before the race no row has RaceEmail; a row under another email may exist
RaceStores ==
    {<< >>} \cup {<<NewUser(uid, OtherEmail, NoneVal)>> : uid \in UIDs}

InitRace ==
    /\ users \in RaceStores
    /\ pc = [w \in Racers |-> "check_email"]
    /\ op \in [Racers -> {"signup", "signin"}]
    /\ req \in [Racers -> [uid : UIDs, email : {RaceEmail}, name : ConcNames,
                           patch : {NoneVal}, event_id : {NoneVal},
                           password : {NoneVal}]]
    /\ user = [w \in Racers |-> NoUser]
    /\ result = [w \in Racers |-> NoResult]
    /\ hist = [w \in Racers |-> [NoHist EXCEPT !.pre = users]]
    /\ up = [w \in Racers |-> NoUp]
    /\ calls = 0
    /\ NoMedia

NextRace == \E w \in Racers : Step(w)

SpecRace == InitRace /\ [][NextRace]_vars

\* each request has its own worker, which runs its statements one after another
SpecRaceFair == SpecRace /\ \A w \in Racers : WF_vars(Step(w))

(* ------ SpecTotal: get_user_upload_size over any stored sizes --------- *)

\* size texts a row can hold: absent, integers, text that is no integer, and
\* a negative integer
SizeTexts == <<NullText, Str(1024), Str(2048), <<"b", "a", "d">>, Str(0 - 5)>>

\* the (uploaded_by, file_size) of a photo row: any size for u1, two for u2
PhotoChoices ==
    [i \in 1..Len(SizeTexts) |-> [uploaded_by |-> "u1", file_size |-> SizeTexts[i]]]
        \o <<[uploaded_by |-> "u2", file_size |-> Str(1024)],
              [uploaded_by |-> "u2", file_size |-> Str(0 - 5)]>>

\* the order of the rows does not matter to a SUM: one table per multiset
SortedChoices(n, k) ==
    {s \in [1..k -> 1..n] : \A i \in 1..(k - 1) : s[i] <= s[i + 1]}

TotalPhotoStores ==
    UNION {{[i \in 1..k |->
                [id |-> i, event_id |-> "ev1", approved |-> FALSE,
                 uploaded_by |-> PhotoChoices[s[i]].uploaded_by,
                 file_size |-> PhotoChoices[s[i]].file_size]] :
            s \in SortedChoices(Len(PhotoChoices), k)} : k \in 0..MaxPhotos}

\* u1 with any avatar size (or ''), with or without a second account
TotalUserStores ==
    {<<[NewUser("u1", "e1", NoneVal) EXCEPT !.avatar_file_size = a]>> \o rest :
        a \in Rows(SizeTexts) \cup {<< >>},
        rest \in {<< >>,
                  <<[NewUser("u2", "e2", NoneVal) EXCEPT !.avatar_file_size = Str(1024)]>>}}

\* ev1 of u1 with any cover size, with or without a second event of u1 or u2
TotalEventStores ==
    {<<NewEvent("ev1", "u1", c)>> \o rest :
        c \in Rows(SizeTexts),
        rest \in {<< >>, <<NewEvent("ev2", "u1", Str(2048))>>,
                  <<NewEvent("ev2", "u2", Str(1024))>>}}

\* events.host_id is a foreign key to users.id
HostsExist == \A e \in Rows(events) : \E r \in Rows(users) : r.id = e.host_id

InitTotal ==
    /\ users \in TotalUserStores
    /\ events \in TotalEventStores
    /\ HostsExist
    /\ photos \in TotalPhotoStores
    /\ dialect \in Dialects
    /\ accepted = << >>
    /\ InitWorkers({1})

NextTotal ==
    \/ \E user_id \in UIDs : GetUserUploadSize(1, user_id)
    \/ QuotaStep(1)

SpecTotal == InitTotal /\ [][NextTotal]_vars

(* ------- SpecUploadSeq: uploads one at a time, on all three paths ------- *)

\* len(file_content) of the files sent
FileSizes == {100000, 500000}
\* a public upload can also be empty
PhotoFileSizes == FileSizes \cup {0}

\* a photo recorded long ago that leaves 600000 bytes of the quota
LegacyPhoto ==
    NewPhoto(1, "ev1", "u1", MAX_UPLOAD_SIZE_PER_USER - 600000)

\* the account u1 with its event ev1, with or without the old photo
InitUpload(W) ==
    /\ users = <<NewUser("u1", "e1", NoneVal)>>
    /\ events = <<NewEvent("ev1", "u1", NullText)>>
    /\ photos \in {<< >>, <<LegacyPhoto>>}
    /\ accepted = << >>
    /\ dialect \in Dialects
    /\ InitWorkers(W)

InitUploadSeq == InitUpload({1})

NextUploadSeq ==
    \/ \E slug \in EventIds, file_size \in PhotoFileSizes :
            UploadPublicPhoto(1, slug, NoneVal, file_size)
    \/ \E event_id \in EventIds, uid \in UIDs, file_size \in FileSizes :
            UploadEventCoverImage(1, event_id, uid, file_size)
    \/ \E uid \in UIDs, email \in RealEmails, name \in SignNames,
          file_size \in FileSizes :
            UploadAvatar(1, uid, email, name, file_size)
    \/ Step(1)
    \/ QuotaStep(1)
    \/ StorePhoto(1)
    \/ StoreCover(1)
    \/ StoreAvatar(1)
    \/ StorageFails(1)

SpecUploadSeq == InitUploadSeq /\ [][NextUploadSeq]_vars

(* ------ SpecUploadRace: photo and cover uploads at the same time -------- *)

InitUploadRace == InitUpload(Workers)

NextUploadRace ==
    \/ \E w \in Workers, slug \in EventIds, file_size \in PhotoFileSizes :
            UploadPublicPhoto(w, slug, NoneVal, file_size)
    \/ \E w \in Workers, event_id \in EventIds, uid \in UIDs, file_size \in FileSizes :
            UploadEventCoverImage(w, event_id, uid, file_size)
    \/ \E w \in Workers :
            \/ QuotaStep(w)
            \/ StorePhoto(w)
            \/ StoreCover(w)
            \/ StorageFails(w)

SpecUploadRace == InitUploadRace /\ [][NextUploadRace]_vars

(* ------ SpecHost: the requests of hosts, visitors and the admin, -------- *)
(* ------ one after the other ------------------------------------------- *)

\* the access password of an event: none, the empty string, a word
Passwords == {NoneVal, "", "pw"}
\* the password of a new event
NewPasswords == {NoneVal, "pw"}
\* the email of the tokens presented to the profile endpoints
ProfileEmails == {"e1"}
\* the event ids of a bulk request
BulkIdSets == {{"ev2"}, {"ev1", "ev2"}}
\* the password a visitor sends: none, the word, another word
SentPasswords == {NoneVal, "pw", "xx"}
\* the size of the files uploaded beside the event requests
HostFileSizes == {100000}
\* a photo approved earlier, as approved rows are in the table of a running site
ApprovedPhoto == [NewPhoto(1, "ev1", "u1", 1024) EXCEPT !.approved = TRUE]
\* the flags PATCH /events/{event_id} and the admin's status request set
EventFlags == {"is_active", "is_archived"}
\* the values of the admin's status request: None, true, false
StatusValues == {<< >>, <<TRUE>>, <<FALSE>>}

\* a photo of a second event, waiting for approval
PendingPhoto == NewPhoto(2, "ev2", "u1", 2048)

\* the account u1 with its event ev1, with or without an approved photo, or
\* with the two events ev1 and ev2 and a photo in each
InitHost ==
    /\ users = <<NewUser("u1", "e1", NoneVal)>>
    /\ \/ /\ events = <<NewEvent("ev1", "u1", NullText)>>
          /\ photos \in {<< >>, <<ApprovedPhoto>>}
       \/ /\ events = <<NewEvent("ev1", "u1", NullText),
                         NewEvent("ev2", "u1", NullText)>>
          /\ photos = <<ApprovedPhoto, PendingPhoto>>
    /\ accepted = << >>
    /\ dialect = "postgresql"
    /\ InitWorkers({1})

NextHost ==
    \/ \E uid \in UIDs, email \in RealEmails, name \in SignNames,
          password \in NewPasswords :
            CreateEvent(1, uid, email, name, password)
    \/ InsertEvent(1)
    \/ \E event_id \in EventIds, uid \in UIDs :
            \/ GetEventDetail(1, event_id, uid)
            \/ DeleteEvent(1, event_id, uid)
            \/ UpdatePhoto(1, event_id, 1, uid, TRUE)
            \/ \E password \in Passwords :
                    UpdateEventMetadata(1, event_id, uid, "password", password)
            \/ \E key \in EventFlags, value \in BOOLEAN :
                    UpdateEventMetadata(1, event_id, uid, key, value)
            \/ \E file_size \in HostFileSizes :
                    UploadEventCoverImage(1, event_id, uid, file_size)
    \/ \E uid \in UIDs, event_ids \in BulkIdSets,
          action \in BulkActionNames \cup {"delete"} :
            BulkActionsOnEvents(1, uid, event_ids, action)
    \/ \E slug \in EventIds :
            \/ GetPublicEventInfo(1, slug)
            \/ GetPublicEventPhotos(1, slug)
            \/ ForceDeleteEvent(1, slug)
            \/ \E key \in EventFlags, value \in StatusValues :
                    UpdateEventStatus(1, slug, key, value)
            \/ \E password \in SentPasswords, file_size \in HostFileSizes :
                    UploadPublicPhoto(1, slug, password, file_size)
    \/ \E uid \in UIDs, email \in ProfileEmails, name \in SignNames :
            \/ \E file_size \in HostFileSizes :
                    UploadAvatar(1, uid, email, name, file_size)
            \/ \E patch \in ConcPatches :
                    UpdateProfile(1, uid, email, NoneVal, patch)
    \/ Step(1)
    \/ PatchProfile(1)
    \/ PatchRefresh(1)
    \/ QuotaStep(1)
    \/ StorePhoto(1)
    \/ StoreCover(1)
    \/ StoreAvatar(1)
    \/ StorageFails(1)
    \/ \E user_id \in StatusIds, is_suspended \in BOOLEAN :
            UpdateUserStatus(user_id, is_suspended)

SpecHost == InitHost /\ [][NextHost]_vars

(* ======================= properties ==================================== *)

\* the call of worker w has returned or raised
Done(w) == pc[w] = "done"

\* the store at the start of w's call held a row with w's email under another id
EmailTakenByOther(w) ==
    \E r \in Rows(hist[w].pre) : r.email = req[w].email /\ r.id # req[w].uid

(* C9: a reconcile call whose email is empty or absent fails with           *)
(* InvalidInput, for either intent and any subject id, before any lookup,    *)
(* and leaves the user store unchanged.                                      *)
C9_MissingEmailIsInvalidInput ==
    \A w \in DOMAIN pc :
        (op[w] \in {"signup", "signin"} /\ req[w].email \in {NoneVal, EmptyStr}) =>
            /\ pc[w] \in {"check_email", "done"}
            /\ hist[w].queries = 0
            /\ users = hist[w].pre
            /\ Done(w) => result[w].kind = InvalidInput

C9_Witness ==
    \E w \in DOMAIN pc :
        /\ Done(w) /\ op[w] = "signup" /\ req[w].email = EmptyStr
        /\ result[w].kind = InvalidInput /\ users # << >>

(* C2: with a row (id A, email E) in the store, a signup-intent reconcile    *)
(* call with email E and subject id A' # A fails with DuplicateIdentity,     *)
(* writes nothing, and /auth/signup answers 409 with the message that tells  *)
(* the user to sign in instead.                                              *)
C2_SignupDuplicateIdentity ==
    \A w \in DOMAIN pc :
        (op[w] = "signup" /\ EmailTakenByOther(w)) =>
            /\ pc[w] \in {"check_email", "lookup", "done"}
            /\ users = hist[w].pre
            /\ hist[w].inserts = 0 /\ hist[w].updates = 0
            /\ Done(w) =>
                /\ result[w].kind = DuplicateIdentity
                /\ result[w].status = 409
                /\ result[w].detail =
                    "An account with this email already exists. Please sign in instead. If you forgot your password, use the 'Forgot Password' option."

C2_Witness ==
    \E w \in DOMAIN pc :
        /\ Done(w) /\ op[w] = "signup" /\ EmailTakenByOther(w)
        /\ result[w].kind = DuplicateIdentity /\ result[w].status = 409
        /\ req[w].name # NoneVal

(* C3: with a row (id A, email E) in the store, a signin-intent reconcile    *)
(* call with email E and subject id A' # A succeeds, returns the row whose   *)
(* id is A, leaves that row's id A in the store and creates no row.          *)
C3_SigninReturnsExisting ==
    \A w \in DOMAIN pc :
        (op[w] = "signin" /\ EmailTakenByOther(w)) =>
            /\ hist[w].inserts = 0
            /\ Len(users) = Len(hist[w].pre)
            /\ \A i \in 1..Len(users) :
                    /\ users[i].id = hist[w].pre[i].id
                    /\ users[i].email = hist[w].pre[i].email
            /\ Done(w) =>
                /\ result[w].kind = Ok
                /\ result[w].user.email = req[w].email
                /\ result[w].user.id # req[w].uid
                /\ \E r \in Rows(hist[w].pre) :
                        r.email = req[w].email /\ r.id = result[w].user.id
                /\ result[w].user \in Rows(users)

C3_Witness ==
    \E w \in DOMAIN pc :
        /\ Done(w) /\ op[w] = "signin" /\ EmailTakenByOther(w)
        /\ result[w].kind = Ok /\ result[w].user.id # req[w].uid
        /\ hist[w].updates = 1

(* C4: for a non-empty email and any display name, present or absent, when   *)
(* no row has that email or that subject id, one reconcile call adds exactly *)
(* one row and returns it with id = subject id, email = the email and        *)
(* name = the display name; no other row is added or changed.                *)
C4_CreatesOneRow ==
    \A w \in DOMAIN pc :
        (/\ Done(w)
         /\ req[w].email \notin {NoneVal, EmptyStr}
         /\ \A r \in Rows(hist[w].pre) :
                r.email # req[w].email /\ r.id # req[w].uid) =>
            /\ result[w].kind = Ok
            /\ result[w].user.id = req[w].uid
            /\ result[w].user.email = req[w].email
            /\ result[w].user.name = req[w].name
            /\ hist[w].inserts = 1 /\ hist[w].updates = 0
            /\ users = Append(hist[w].pre, result[w].user)

C4_Witness ==
    \E w \in DOMAIN pc :
        /\ Done(w) /\ hist[w].round = 1 /\ hist[w].inserts = 1
        /\ Len(hist[w].pre) = 1 /\ Len(users) = 2
        /\ result[w].user.name = "n1"

(* C5: two consecutive reconcile calls with the same subject id, email,      *)
(* display name and intent, nothing between them, end the same way and       *)
(* return records with the same id; together they perform at most one        *)
(* insert, and the store after the second equals the store after the first.  *)
C5_Idempotent ==
    \A w \in DOMAIN pc :
        (Done(w) /\ hist[w].round >= 2) =>
            /\ result[w].kind = hist[w].prevResult.kind
            /\ result[w].user.id = hist[w].prevResult.user.id
            /\ hist[w].prevInserts + hist[w].inserts <= 1
            /\ users = hist[w].pre

C5_Witness ==
    \E w \in DOMAIN pc :
        /\ Done(w) /\ hist[w].round = 2
        /\ hist[w].prevInserts = 1 /\ hist[w].inserts = 0
        /\ result[w].kind = Ok /\ result[w].user.id = req[w].uid
        /\ op[w] = "signup"

(* ----------------------------- the race -------------------------------- *)

AllDone == \A w \in DOMAIN pc : Done(w)

RowsWithEmail(email) == {i \in 1..Len(users) : users[i].email = email}

\* before the race no row has the email of the race
RaceEmailIsNew == \A r \in Rows(hist[1].pre) : r.email # RaceEmail

\* before the race no row has the subject id of any of the calls
RaceUidsAreNew ==
    \A w \in DOMAIN pc : \A r \in Rows(hist[w].pre) : r.id # req[w].uid

(* C1 as stated: N >= 2 reconcile calls with the same email run concurrently *)
(* in any interleaving, no row with that email before them; the store ends   *)
(* with exactly one row with that email and every call returns a record      *)
(* with that email.                                                          *)
C1_AsStated ==
    (AllDone /\ RaceEmailIsNew) =>
        /\ Cardinality(RowsWithEmail(RaceEmail)) = 1
        /\ \A w \in DOMAIN pc :
                result[w].kind = Ok /\ result[w].user.email = RaceEmail

(* C1 amended: N >= 2 reconcile calls with the same email run concurrently   *)
(* in any interleaving, no row with that email or with the subject id of any *)
(* of the calls before them; the store ends with exactly one row with that   *)
(* email, and every call either returns a record with that email or, when it *)
(* has signup intent and its subject id is not the id of that row, fails     *)
(* with DuplicateIdentity.                                                   *)
C1_OneRowPerRace ==
    (AllDone /\ RaceEmailIsNew /\ RaceUidsAreNew) =>
        /\ Cardinality(RowsWithEmail(RaceEmail)) = 1
        /\ \A w \in DOMAIN pc :
            \/ result[w].kind = Ok /\ result[w].user.email = RaceEmail
            \/ /\ result[w].kind = DuplicateIdentity
               /\ op[w] = "signup"
               /\ \A i \in RowsWithEmail(RaceEmail) : users[i].id # req[w].uid

\* the race happened: one call inserted, another lost the insert and re-read
C1_Witness ==
    /\ AllDone /\ RaceEmailIsNew /\ RaceUidsAreNew
    /\ users # << >> /\ hist[1].pre # << >>
    /\ \E v, w \in DOMAIN pc :
        /\ hist[v].inserts = 1
        /\ hist[w].insertFailed /\ result[w].kind = Ok
        /\ result[w].user.email = RaceEmail
        /\ req[w].uid = req[v].uid

(* ------------------------ the users table ------------------------------ *)

UniqueIds == \A i, j \in 1..Len(users) : i # j => users[i].id # users[j].id

UniqueEmails == \A i, j \in 1..Len(users) : i # j => users[i].email # users[j].email

\* every row stays, under the id it was created with
IdsKept == \A i \in 1..Len(users) : i <= Len(users') /\ users'[i].id = users[i].id

(* C6: under any interleaving of reconcile calls, profile edits and          *)
(* suspension toggles, no two user rows share an email, no two share an id,  *)
(* and the id of a row never changes after the row is created.               *)
C6_UniqueAndImmutable == [](UniqueIds /\ UniqueEmails) /\ [][IdsKept]_vars

C6_Witness ==
    /\ Len(users) = 2
    /\ \E i \in 1..Len(users) : users[i].is_suspended /\ users[i].name = "n2"
    /\ \E w \in DOMAIN pc : hist[w].insertFailed /\ Done(w)

(* ------------------------ the insert conflict -------------------------- *)

\* a row the re-read of w's call can match
RequeryMatch(w) ==
    \E r \in Rows(users) : r.email = req[w].email \/ r.id = req[w].uid

\* w's insert hits the uniqueness constraint in this step
InsertFails(w) == ~hist[w].insertFailed /\ hist'[w].insertFailed

\* w runs its re-read in this step
Requeries(w) == pc[w] = "requery" /\ pc'[w] # "requery"

(* C7: when the insert of a reconcile call fails on a uniqueness constraint, *)
(* the call leaves no row of its own, re-queries by (email OR subject id)    *)
(* and returns the row found; whenever such a row exists at the re-query,    *)
(* the call ends with that row and not with an error.                        *)
C7_ConflictRecovered ==
    /\ [](\A w \in DOMAIN pc :
            hist[w].insertFailed =>
                /\ hist[w].inserts = 0
                /\ pc[w] # "requery" => hist[w].requeried)
    /\ [][\A w \in DOMAIN pc :
            /\ InsertFails(w) => users' = users /\ pc'[w] = "requery"
            /\ (Requeries(w) /\ RequeryMatch(w)) =>
                    /\ users' = users
                    /\ result'[w].kind = Ok
                    /\ result'[w].user \in Rows(users)
                    /\ \/ result'[w].user.email = req[w].email
                       \/ result'[w].user.id = req[w].uid]_vars

\* another call created the row for the email between w's lookup and w's
\* insert, and w's re-read returned that row
C7_Witness ==
    \E w \in DOMAIN pc :
        /\ Done(w) /\ op[w] = "signin"
        /\ hist[w].insertFailed /\ hist[w].requeried
        /\ result[w].kind = Ok
        /\ result[w].user.email = req[w].email
        /\ result[w].user.id # req[w].uid

(* C8: a reconcile call ends with ReconciliationFailed exactly when its      *)
(* insert failed on a uniqueness constraint and the re-query by (email OR    *)
(* subject id) that followed found no row; never when the insert succeeded   *)
(* or the re-query found a row.                                              *)
C8_ReconciliationFailedIff ==
    /\ [](\A w \in DOMAIN pc :
            Done(w) =>
                /\ result[w].kind = ReconciliationFailed <=>
                    (hist[w].insertFailed /\ hist[w].requeried
                        /\ ~hist[w].matchAtRequery)
                /\ result[w].kind = ReconciliationFailed => hist[w].inserts = 0)
    /\ [][\A w \in DOMAIN pc :
            Requeries(w) =>
                (result'[w].kind = ReconciliationFailed <=> ~RequeryMatch(w))]_vars

C8_Witness ==
    \E w \in DOMAIN pc :
        /\ Done(w) /\ result[w].kind = ReconciliationFailed
        /\ hist[w].insertFailed /\ ~hist[w].matchAtRequery
        /\ result[w].status = 500

(* ------------------------ writes and returns --------------------------- *)

\* get_or_create_user has returned to the endpoint
Returned(w) == pc[w] \in {"done", "patch", "patch_refresh"}

Wrote(w) == hist[w].inserts + hist[w].updates > 0

(* C10: a reconcile call performs at most one insert and at most one update; *)
(* each write is committed before the call returns: after its write the call *)
(* reads the row back from the table, and the record it returns is the row   *)
(* as committed at that read.                                                *)
C10_WritesCommittedBeforeReturn ==
    /\ [](\A w \in DOMAIN pc : hist[w].inserts <= 1 /\ hist[w].updates <= 1)
    /\ [][\A w \in DOMAIN pc :
            /\ (pc[w] = "refresh" /\ pc'[w] # "refresh" /\ user'[w] # NoUser) =>
                    user'[w] \in Rows(users') /\ user'[w].id = user[w].id
            /\ (~Returned(w) /\ pc'[w] \in {"done", "patch"}
                    /\ result'[w].kind = Ok /\ Wrote(w)) =>
                    /\ pc[w] \in {"refresh", "reread"}
                    /\ pc[w] = "reread" => user'[w] = user[w]
                    /\ result'[w].user = user'[w]]_vars

\* an update was committed, the row read back, and another request has
\* changed the row since
C10_Witness ==
    \E w \in DOMAIN pc :
        /\ Done(w) /\ op[w] = "signin" /\ hist[w].updates = 1
        /\ result[w].kind = Ok /\ result[w].user.name = req[w].name
        /\ result[w].user \notin Rows(users)

(* --------------------- what reconcile may change ----------------------- *)

\* some worker runs one statement of get_or_create_user in this step
ReconcileStep == \E w \in DOMAIN pc : Step(w)

\* number of rows of tbl with this email
EmailCount(tbl, email) == Cardinality({i \in 1..Len(tbl) : tbl[i].email = email})

(* C11: per email, a reconcile call only moves the store from "no row with   *)
(* this email" to "one row with this email": no statement of a reconcile     *)
(* call deletes a user row, changes the id or the email of an existing row,  *)
(* or changes the is_admin or is_suspended flag of any row.                  *)
C11_ReconcileOnlyCreates ==
    [][ReconcileStep =>
        /\ Len(users') \in {Len(users), Len(users) + 1}
        /\ \A i \in 1..Len(users) :
                /\ users'[i].id = users[i].id
                /\ users'[i].email = users[i].email
                /\ users'[i].is_admin = users[i].is_admin
                /\ users'[i].is_suspended = users[i].is_suspended
        /\ \A i \in (Len(users) + 1)..Len(users') :
                ~users'[i].is_admin /\ ~users'[i].is_suspended
        /\ \A e \in RealEmails :
                \/ EmailCount(users', e) = EmailCount(users, e)
                \/ EmailCount(users, e) = 0 /\ EmailCount(users', e) = 1]_vars

\* a reconcile call has renamed a suspended account, beside a row another
\* reconcile call created
C11_Witness ==
    /\ Len(users) = 2
    /\ \E w \in DOMAIN pc :
        /\ Done(w) /\ op[w] = "signin" /\ hist[w].updates = 1
        /\ \E r \in Rows(users) :
                r.id = result[w].user.id /\ r.is_suspended /\ r.name = req[w].name

(* ------------------------ the display name ----------------------------- *)

\* the rows that had the email of w's call when the call started
PreRowsByEmail(w) == {r \in Rows(hist[w].pre) : r.email = req[w].email}

\* the store at the start of w's call with the name of row id replaced
PreRenamed(w, id, name) ==
    [i \in 1..Len(hist[w].pre) |->
        IF hist[w].pre[i].id = id
          THEN [hist[w].pre[i] EXCEPT !.name = name]
          ELSE hist[w].pre[i]]

\* what a finished call must have done with the display name of row r
NameReconciled(w, r) ==
    IF req[w].name # NoneVal /\ req[w].name # r.name
      THEN /\ users = PreRenamed(w, r.id, req[w].name)
           /\ hist[w].updates = 1
           /\ result[w].kind = Ok
           /\ result[w].user = [r EXCEPT !.name = req[w].name]
      ELSE /\ users = hist[w].pre
           /\ hist[w].updates = 0

(* C12 as stated: when reconcile finds an existing row for the email: if a   *)
(* display name is provided and differs from the stored name, the stored     *)
(* name becomes the provided name and the returned record carries it; if the *)
(* display name is absent or equal to the stored name, the row is left       *)
(* unchanged and no update is performed.                                     *)
C12_AsStated ==
    \A w \in DOMAIN pc :
        Done(w) => \A r \in PreRowsByEmail(w) : NameReconciled(w, r)

(* C12 amended: when reconcile finds an existing row for the email and does  *)
(* not reject the call as a signup under another subject id: if a display    *)
(* name is provided and differs from the stored name, the stored name        *)
(* becomes the provided name and the returned record carries it; if the      *)
(* display name is absent or equal to the stored name, the row is left       *)
(* unchanged, no update is performed and the row is returned as stored.      *)
C12_NameUpdatedWhenProvided ==
    \A w \in DOMAIN pc :
        Done(w) =>
            \A r \in PreRowsByEmail(w) :
                ~(op[w] = "signup" /\ r.id # req[w].uid) =>
                    /\ NameReconciled(w, r)
                    /\ hist[w].inserts = 0
                    /\ result[w].kind = Ok
                    /\ result[w].user \in Rows(users)
                    /\ result[w].user.id = r.id

\* a signin under another subject id has replaced the stored name of a
\* suspended account, beside an untouched second row
C12_Witness ==
    \E w \in DOMAIN pc :
        /\ Done(w) /\ op[w] = "signin" /\ hist[w].round = 1
        /\ Len(users) = 2
        /\ \E r \in PreRowsByEmail(w) :
            /\ r.id # req[w].uid /\ r.is_suspended
            /\ r.name = "n1" /\ req[w].name = "n2"
            /\ result[w].user = [r EXCEPT !.name = "n2"]
            /\ result[w].user \in Rows(users)

(* ------------------------ the quota total ------------------------------ *)

\* a call of get_user_upload_size by worker w has returned or failed
TotalDone(w) == Done(w) /\ op[w] = "total"

\* the bytes a stored size text stands for: nothing for an absent value and
\* for a text that is no integer
BytesOf(t) == IF t # NullText /\ IsIntegerText(t) THEN IntegerOf(t) ELSE 0

\* the sum of the second components of a set of <<row id, bytes>> pairs
RECURSIVE SumBytes(_)
SumBytes(S) ==
    IF S = {} THEN 0
    ELSE LET x == CHOOSE x \in S : TRUE IN x[2] + SumBytes(S \ {x})

PhotosOf(user_id) == {p \in Rows(photos) : p.uploaded_by = user_id}
EventsOf(user_id) == {e \in Rows(events) : e.host_id = user_id}
AccountOf(user_id) == {r \in Rows(users) : r.id = user_id}

\* what the specification says the total of the account is
ExpectedTotal(user_id) ==
    SumBytes({<<p.id, BytesOf(p.file_size)>> : p \in PhotosOf(user_id)})
    + SumBytes({<<e.id, BytesOf(e.cover_image_file_size)>> : e \in EventsOf(user_id)})
    + SumBytes({<<r.id, BytesOf(r.avatar_file_size)>> : r \in AccountOf(user_id)})

\* every size in the store is absent or the text of an integer
IntegerEncoded ==
    /\ \A p \in Rows(photos) : p.file_size = NullText \/ IsIntegerText(p.file_size)
    /\ \A e \in Rows(events) :
            e.cover_image_file_size = NullText \/ IsIntegerText(e.cover_image_file_size)
    /\ \A r \in Rows(users) :
            r.avatar_file_size = NullText \/ IsIntegerText(r.avatar_file_size)

C14_AsStated ==
    \A w \in DOMAIN pc :
        TotalDone(w) =>
            /\ result[w].kind = Ok
            /\ up[w].current_upload_size = ExpectedTotal(up[w].user_id)

(* C15 as stated: for every user id and every store, also one where a stored *)
(* size text is a negative integer, get_user_upload_size returns an integer   *)
(* greater than or equal to 0.                                                *)
C15_AsStated ==
    \A w \in DOMAIN pc :
        (TotalDone(w) /\ result[w].kind = Ok) => up[w].current_upload_size >= 0

(* ------------------------ the quota check ------------------------------ *)

Uploads == {"upload_public_photo", "upload_event_cover_image", "upload_avatar"}

\* the upload of worker w passed the quota check and nothing is stored yet
PassedCheck(w) == op[w] \in Uploads /\ pc[w] = "store"

\* the upload of worker w was refused by the quota check
RejectedOnQuota(w) ==
    op[w] \in Uploads /\ Done(w) /\ result[w].kind = QuotaExceeded

ReconcilePcs ==
    {"check_email", "lookup", "insert", "update", "refresh", "reread", "requery"}

\* the longest run of statements get_or_create_user can still make from p
Rank(p) ==
    CASE p = "check_email" -> 5
      [] p = "lookup" -> 4
      [] p = "insert" -> 3
      [] p = "update" -> 3
      [] p = "requery" -> 1
      [] p = "refresh" -> 2
      [] p = "reread" -> 1
      [] OTHER -> 0

(* C19: every reconcile call terminates, under any interleaving with other   *)
(* reconcile calls, after at most one lookup, at most one insert attempt and *)
(* at most one re-read on conflict: it never retries the insert, never       *)
(* loops (every statement brings the call strictly closer to its end) and    *)
(* never waits (its next statement can run whatever the other calls do).     *)
C19_TerminatesWithoutRetry ==
    /\ [](\A w \in DOMAIN pc :
            /\ hist[w].lookups <= 1
            /\ hist[w].attempts <= 1
            /\ hist[w].requeries <= 1
            /\ hist[w].requeries = 1 => hist[w].insertFailed
            /\ hist[w].inserts + hist[w].updates <= 1
            /\ pc[w] \in ReconcilePcs => ENABLED Step(w))
    /\ [][\A w \in DOMAIN pc :
            pc'[w] # pc[w] => Rank(pc'[w]) < Rank(pc[w])]_vars
    /\ <>AllDone

\* one call inserted; another looked up before that, lost its one insert
\* attempt and ended after its one re-read
C19_Witness ==
    \E v, w \in DOMAIN pc :
        /\ Done(v) /\ hist[v].attempts = 1 /\ hist[v].inserts = 1
        /\ Done(w) /\ hist[w].lookups = 1 /\ hist[w].attempts = 1
        /\ hist[w].inserts = 0 /\ hist[w].requeries = 1

(* ----------------------- how failures are answered --------------------- *)

\* the status code of the framework's answer to an exception no handler caught
GenericServerFailure == Respond("signin", StaleDataError, NoUser).status

(* C20 as stated: a ReconciliationFailed outcome of reconcile is surfaced to *)
(* the end caller of both the signup and the signin endpoint as a generic    *)
(* server failure: it is never swallowed and never reported with the same    *)
(* response kind as DuplicateIdentity (the sign-in-instead conflict) or      *)
(* InvalidInput.                                                             *)
C20_AsStated ==
    \A w \in DOMAIN pc :
        (Done(w) /\ op[w] \in {"signup", "signin"}
            /\ result[w].kind = ReconciliationFailed) =>
            /\ result[w].status = GenericServerFailure
            /\ result[w].status # Respond("signup", DuplicateIdentity, NoUser).status
            /\ result[w].status # Respond(op[w], InvalidInput, NoUser).status

(* ------------------- what the re-read hands back ----------------------- *)

(* C23 as stated: in any interleaving of reconcile calls, a signup call with *)
(* subject id S and email E never returns successfully with a record whose id *)
(* differs from S; when a concurrent call with another subject id creates the *)
(* row for E first, so that the signup's insert hits the uniqueness           *)
(* constraint, the signup fails with DuplicateIdentity instead of returning   *)
(* the other caller's record.                                                 *)
C23_AsStated ==
    \A w \in DOMAIN pc :
        (Done(w) /\ op[w] = "signup") =>
            /\ result[w].kind = Ok => result[w].user.id = req[w].uid
            /\ (/\ hist[w].insertFailed
                /\ \E r \in Rows(users) : r.email = req[w].email /\ r.id # req[w].uid)
                    => result[w].kind = DuplicateIdentity

(* C24 as stated: every successful reconcile call with email E returns a     *)
(* record whose email is E, in every store, also when no row has email E but  *)
(* a row with the caller's subject id and another email exists.               *)
C24_AsStated ==
    \A w \in DOMAIN pc :
        (Done(w) /\ result[w].kind = Ok) => result[w].user.email = req[w].email

(* C24 amended: every successful reconcile call with email E and subject id  *)
(* S returns a record whose email is E, except when its insert failed on the  *)
(* uniqueness constraint: then the re-read by email OR subject id may return  *)
(* the stored row whose id is S, with the email that row has.                 *)
C24_EmailOrOwnId ==
    \A w \in DOMAIN pc :
        (Done(w) /\ result[w].kind = Ok) =>
            \/ result[w].user.email = req[w].email
            \/ /\ hist[w].insertFailed /\ hist[w].requeried
               /\ result[w].user.id = req[w].uid

\* a call whose insert failed on its own id got back the row with that id and
\* another email
C24_Witness ==
    \E w \in DOMAIN pc :
        /\ Done(w) /\ result[w].kind = Ok
        /\ hist[w].insertFailed
        /\ result[w].user.id = req[w].uid
        /\ result[w].user.email # req[w].email

(* --------------------- whose quota an upload uses ---------------------- *)

(* C27 as stated: on every upload path the user id whose total the quota     *)
(* check reads is the user id whose recorded total the accepted upload        *)
(* increases: in upload_avatar the id passed to get_user_upload_size is the   *)
(* id of the row that receives avatar_file_size, also when reconcile returned *)
(* a row whose id differs from the token's subject id, and in                 *)
(* upload_public_photo the checked host id is the photo's uploaded_by.        *)
C27_AsStated ==
    \A w \in DOMAIN pc :
        (op[w] \in Uploads /\ (PassedCheck(w) \/ (Done(w) /\ result[w].kind = Ok))) =>
            up[w].user_id = ChargedUser(w)

HostOps == {"get_event_detail", "update_event_metadata", "delete_event",
            "upload_event_cover_image"}

\* create_event succeeded for a caller with subject id uid and made event_id
Created(event_id, uid) ==
    \E i \in 1..Len(accepted) :
        /\ accepted[i].op = "create_event"
        /\ accepted[i].event_id = event_id
        /\ accepted[i].uid = uid

(* C25 as stated: after create_event succeeded for a caller whose token has   *)
(* subject id S, no later host operation (get detail, update, delete, cover   *)
(* upload) of the same caller on that event is refused by                     *)
(* verify_event_ownership, also when reconcile returned a row whose id is not *)
(* S: the host_id stored at creation is the id the ownership check compares.  *)
C25_AsStated ==
    \A w \in DOMAIN pc :
        (/\ Done(w)
         /\ op[w] \in HostOps
         /\ Created(req[w].event_id, req[w].uid))
            => result[w].kind # Forbidden

(* ------------------------ rows that are removed ------------------------ *)

\* the ids of the rows of a table
IdsOf(tbl) == {tbl[i].id : i \in 1..Len(tbl)}

\* the request of worker w ends with this step
Ends(w) == pc'[w] = "done" /\ (pc[w] # "done" \/ calls' # calls)

(* C21: no operation that handles a request (reconcile, profile edit, avatar  *)
(* upload, event create, update and delete, photo upload and moderation, the  *)
(* admin's status changes and force-delete of an event) removes a row of the  *)
(* users table: in every step the set of user ids stays or grows.             *)
C21_UserIdsOnlyGrow == [][IdsOf(users) \subseteq IdsOf(users')]_vars

\* a second account was created, and an event force-deleted after that
C21_Witness ==
    /\ IdsOf(users) = UIDs
    /\ Done(1)
    /\ op[1] = "force_delete_event"
    /\ result[1].kind = Ok

\* the event a photo row references
EventOf(p) == {e \in Rows(events) : e.id = p.event_id}

\* the step ends a delete_event or force_delete_event that found its event
Deletes(w) ==
    /\ Ends(w)
    /\ op'[w] \in {"delete_event", "force_delete_event"}
    /\ result'[w].kind = Ok

(* C22: in every reachable state every photo row references exactly one       *)
(* event row that exists, and a delete_event or force_delete_event that       *)
(* succeeds removes the event, all photos of that event and no photo of any   *)
(* other event.                                                               *)
C22_PhotosHaveTheirEvent ==
    /\ [](\A p \in Rows(photos) : Cardinality(EventOf(p)) = 1)
    /\ [][\A w \in DOMAIN pc : Deletes(w) =>
            /\ req'[w].event_id \in IdsOf(events) \ IdsOf(events')
            /\ Rows(photos') = {p \in Rows(photos) : p.event_id # req'[w].event_id}
            /\ Len(photos') = Cardinality(Rows(photos'))]_vars

\* an event with a photo was deleted, and the photo of the other event is
\* still there
C22_Witness ==
    /\ Done(1)
    /\ op[1] \in {"delete_event", "force_delete_event"}
    /\ result[1].kind = Ok
    /\ req[1].event_id = "ev1"
    /\ IdsOf(events) = {"ev2"}
    /\ photos = <<PendingPhoto>>

(* ------------------------ what visitors see ---------------------------- *)

\* the rows of the photos table a visitor of the event may see
Visible(event_id) ==
    {p \in Rows(photos) : p.event_id = event_id /\ p.approved}

\* the public reads
PublicReads == {"get_public_event_info", "get_public_event_photos"}

(* C28: a photo row created by a public upload has approved = false; the      *)
(* public listing of an event holds exactly, and the public count counts      *)
(* exactly, the photos of that event whose approved flag is true; and no step *)
(* turns the flag of a stored photo to true, so an uploaded photo is in no    *)
(* public listing as long as no moderation has approved it.                   *)
C28_OnlyApprovedIsPublic ==
    /\ [](\A w \in DOMAIN pc :
            (Done(w) /\ op[w] \in PublicReads /\ result[w].kind = Ok) =>
                /\ up[w].photo_count = Cardinality(Visible(req[w].event_id))
                /\ op[w] = "get_public_event_photos" =>
                        up[w].photos = Visible(req[w].event_id))
    /\ [][/\ \A p \in Rows(photos') \ Rows(photos) : ~p.approved
          /\ \A p \in Rows(photos), q \in Rows(photos') :
                (p.id = q.id /\ ~p.approved) => ~q.approved]_vars

\* the listing of an event shows its approved photo and leaves out the photo
\* a visitor uploaded before
C28_Witness ==
    /\ Done(1)
    /\ op[1] = "get_public_event_photos"
    /\ result[1].kind = Ok
    /\ up[1].photos = {ApprovedPhoto}
    /\ \E i \in 1..Len(accepted) :
            /\ accepted[i].op = "upload_public_photo"
            /\ accepted[i].event_id = req[1].event_id
    /\ \E p \in Rows(photos) : p.event_id = req[1].event_id /\ ~p.approved

(* ------------------------ the event password -------------------------- *)

\* the event the public upload of worker w names
Named(w) == {e \in Rows(events) : e.id = req[w].event_id}

\* the public upload of worker w is past its checks, or has stored its photo
Admitted(w) ==
    /\ op[w] = "upload_public_photo"
    /\ \/ pc[w] \in {"sum_photos", "sum_covers", "read_avatar", "store"}
       \/ Done(w) /\ result[w].kind = Ok

\* the step ends a public upload that was refused before the quota check
Refused(w) ==
    /\ Ends(w)
    /\ op'[w] = "upload_public_photo"
    /\ result'[w].kind \in {Unauthorized, NotFound}

Kept(tbl, tbl2) == Rows(tbl) \cap Rows(tbl2)

(* C30: a host operation on an event (get detail, update metadata, delete,    *)
(* cover upload) changes something only when the event's host_id is the       *)
(* caller's subject id; for another caller it ends 403, for a missing event   *)
(* 404, with the events and the photos unchanged; and it never touches        *)
(* another event or another event's photos. A bulk action changes only events *)
(* whose id is in the request and whose host_id is the caller's subject id.   *)
C30_OnlyTheHostActs ==
    [][\A w \in DOMAIN pc :
        /\ (op'[w] \in HostOps /\ Ends(w)) =>
            LET id == req'[w].event_id
                uid == req'[w].uid
                named == {e \in Rows(events) : e.id = id}
            IN  /\ named = {} =>
                    /\ result'[w].kind = NotFound
                    /\ events' = events /\ photos' = photos
                /\ (\E e \in named : e.host_id # uid) =>
                    /\ result'[w].kind = Forbidden
                    /\ events' = events /\ photos' = photos
                /\ \A e \in Rows(events) : e.id # id => e \in Kept(events, events')
                /\ \A p \in Rows(photos) : p.event_id # id => p \in Kept(photos, photos')
        /\ (op'[w] \in HostOps /\ ~Ends(w)) =>
                events' = events /\ photos' = photos
        /\ (op'[w] = "bulk_actions_on_events" /\ Ends(w)) =>
            /\ photos' = photos
            /\ Len(events') = Len(events)
            /\ \A e \in Rows(events) :
                    (e.id \notin req'[w].patch.event_ids \/ e.host_id # req'[w].uid)
                        => e \in Kept(events, events')
      ]_vars

\* a bulk archive by u2 of both events archived the event u2 hosts and left
\* the event of u1 alone
C30_Witness ==
    /\ Done(1)
    /\ op[1] = "bulk_actions_on_events"
    /\ result[1].kind = Ok
    /\ req[1].uid = "u2"
    /\ req[1].patch.event_ids = {"ev1", "ev2"}
    /\ \E e \in Rows(events) : e.id = "ev1" /\ e.host_id = "u1" /\ ~e.is_archived
    /\ \E e \in Rows(events) : e.id = "ev2" /\ e.host_id = "u2" /\ e.is_archived

====
